---- MODULE Spec2Model ----
(***************************************************************************)
(* QuizStream: a FastAPI application (signup / login with approval, video  *)
(* upload -> transcript -> embeddings -> quiz questions, quiz views and a  *)
(* retrieval-augmented chat), modelled as a state machine.  Every route    *)
(* handler is one action; the relational tables, the vector store and the  *)
(* in-memory chat sessions are the state.                                  *)
(***************************************************************************)
EXTENDS Integers, Sequences, FiniteSets, TLC

(***************************************************************************)
(* Bounds of the model.                                                    *)
(***************************************************************************)
MaxRequests == 3
MaxVideos == 2
MaxMcqs == 2
MaxItems == 2
MaxWords == 2
MaxTurns == 3
ChunkTokens == 1

(***************************************************************************)
(* Python values.                                                          *)
(***************************************************************************)
None == "None"

\* Strings whose characters matter are tuples of one-character strings.
Lowers == <<"a","b","c","d","e","f","g","h","i","j","k","l","m",
            "n","o","p","q","r","s","t","u","v","w","x","y","z">>
Uppers == <<"A","B","C","D","E","F","G","H","I","J","K","L","M",
            "N","O","P","Q","R","S","T","U","V","W","X","Y","Z">>

\* str.upper(), character by character
UpperChar(c) ==
  IF \E i \in DOMAIN Lowers : Lowers[i] = c
    THEN Uppers[CHOOSE i \in DOMAIN Lowers : Lowers[i] = c]
    ELSE c
Upper(s) == [i \in DOMAIN s |-> UpperChar(s[i])]

\* str.lower(), character by character
LowerChar(c) ==
  IF \E i \in DOMAIN Uppers : Uppers[i] = c
    THEN Lowers[CHOOSE i \in DOMAIN Uppers : Uppers[i] = c]
    ELSE c
Lower(s) == [i \in DOMAIN s |-> LowerChar(s[i])]

\* str.replace(old, new) for one-character old and new
Replace(s, old, new) == [i \in DOMAIN s |-> IF s[i] = old THEN new ELSE s[i]]

VARIABLES
  users,            \* table users: set of User rows
  signup_requests,  \* table signup_requests: set of SignupRequest rows
  nextReqId,        \* the uuid4() the next SignupRequest row gets
  nextVideoId,      \* the uuid4() the next Video row gets
  nextMcqId,        \* the uuid4() the next MCQ row gets
  videos,           \* table videos: set of Video rows
  mcqs,             \* table mcqs: sequence of MCQ rows
  environ,          \* os.environ as read at import: CHROMA_DB_DIR
  chroma,           \* the vector store: directory -> collection -> id -> document
  chat_sessions,    \* chatbot_router.chat_sessions
  approvals,        \* history: request id -> number of APPROVEs done on it
  approvedNames,    \* history: usernames an APPROVE has created a User for
  asked,            \* history: session id -> the exchanges of its successful calls
  caller,           \* the last request's bearer token and the clock it was checked at
  last              \* the last request: route, inputs, whether its handler ran, response

authVars == <<users, signup_requests, nextReqId, approvals, approvedNames>>
appVars == <<videos, mcqs, nextVideoId, nextMcqId, environ, chroma, chat_sessions, asked>>
vars == <<users, signup_requests, nextReqId, nextVideoId, nextMcqId, videos, mcqs,
          environ, chroma, chat_sessions, approvals, approvedNames, asked, caller, last>>

(***************************************************************************)
(* Responses.                                                              *)
(***************************************************************************)
\* raise HTTPException(status_code, detail)
HTTPException(status_code, detail) ==
  [status |-> status_code, detail |-> detail, body |-> None]
\* a handler's return value, sent with 200
Ok(body) == [status |-> 200, detail |-> None, body |-> body]
\* an exception no handler catches: Starlette answers 500
ServerError(exc) == [status |-> 500, detail |-> exc, body |-> None]

\* the record of one request
Request(route, args, ran, resp) ==
  [route |-> route, args |-> args, ran |-> ran, status |-> resp.status,
   detail |-> resp.detail, body |-> resp.body]

(***************************************************************************)
(* app/auth.py: tokens.                                                    *)
(***************************************************************************)
SECRET_KEY == "server_key"
ACCESS_TOKEN_EXPIRE_MINUTES == 60

\* the instants (minutes) at which a request may read the clock
Times == {0, 90}

\* dict.get(key): None when the key is absent
Get(d, k) == IF k \in DOMAIN d THEN d[k] ELSE None

\* jwt.encode(claims + exp, key): a token is its signing key, its claims and its
\* expiry; a malformed token is a string that is no JWT at all
create_access_token(data, utcnow) ==
  [malformed |-> FALSE, key |-> SECRET_KEY, claims |-> data,
   exp |-> utcnow + ACCESS_TOKEN_EXPIRE_MINUTES]

\* jwt.decode(token, key): JWTError on a malformed token, a signature made with
\* another key, or an expiry in the past; the claims otherwise
jwt_decode(token, key, utcnow) ==
  IF token.malformed \/ token.key # key \/ token.exp < utcnow
    THEN [ok |-> FALSE, payload |-> <<>>]
    ELSE [ok |-> TRUE, payload |-> token.claims]

credentials_exception == HTTPException(401, "Invalid authentication")

get_current_user_sub_only(token, utcnow) ==
  LET d == jwt_decode(token, SECRET_KEY, utcnow) IN
  IF ~d.ok THEN [ok |-> FALSE, exc |-> credentials_exception, user |-> None]
  ELSE IF Get(d.payload, "sub") = None
    THEN [ok |-> FALSE, exc |-> credentials_exception, user |-> None]
    ELSE [ok |-> TRUE, exc |-> None,
          user |-> [username |-> Get(d.payload, "sub"), role |-> Get(d.payload, "role")]]

\* get_current_user: TokenData, or the 401 it raises
get_current_user(token, utcnow) ==
  LET d == jwt_decode(token, SECRET_KEY, utcnow) IN
  IF ~d.ok THEN [ok |-> FALSE, exc |-> credentials_exception, user |-> None]
  ELSE LET username == Get(d.payload, "sub")
           role == Get(d.payload, "role")
       IN IF username = None \/ role = None
            THEN [ok |-> FALSE, exc |-> credentials_exception, user |-> None]
            ELSE [ok |-> TRUE, exc |-> None, user |-> [username |-> username, role |-> role]]

require_role_unchecked(allowed_roles, token, utcnow) ==
  get_current_user(token, utcnow)

\* require_role(allowed_roles) as a dependency: role_checker on get_current_user
require_role(allowed_roles, token, utcnow) ==
  LET u == get_current_user(token, utcnow) IN
  IF ~u.ok THEN u
  ELSE IF u.user.role \notin allowed_roles
    THEN [ok |-> FALSE, exc |-> HTTPException(403, "Not enough permissions"), user |-> None]
    ELSE u

\* a request to a route that takes no token
NoCaller == [present |-> FALSE, token |-> None, utcnow |-> 0]

\* app/main.py: the dependencies of the routers
teacher_dependencies == {"teacher"}
teacher_student_dependencies == {"teacher", "student"}

(***************************************************************************)
(* passlib CryptContext(bcrypt): a hash is a salt and a digest of salt and *)
(* password; verify recomputes the digest with the stored salt.            *)
(***************************************************************************)
Salts == {"s1", "s2"}
pwd_hash(password, salt) == [salt |-> salt, digest |-> <<salt, password>>]
pwd_verify(password, h) == h.digest = <<h.salt, password>>

(***************************************************************************)
(* app/routers/auth_router.py, app/routers/manage_users.py                 *)
(***************************************************************************)
Usernames == {"ann", "bob"}
Names == {"N"}
Passwords == {"pw1", "pw2"}
UserRole == {"teacher", "student"}

APPROVE == <<"A","P","P","R","O","V","E">>
DECLINE == <<"D","E","C","L","I","N","E">>
ManageActions == {APPROVE, <<"a","p","p","r","o","v","e">>,
                  <<"D","e","c","l","i","n","e">>, <<"d","r","o","p">>}

\* query(User).filter(User.username == username).first(); username is unique.
\* HasUser tells whether first() found a row.
UserByName(username) ==
  IF \E u \in users : u.username = username
    THEN CHOOSE u \in users : u.username = username
    ELSE None
HasUser(username) == \E u \in users : u.username = username
HasRequest(username) == \E r \in signup_requests : r.username = username

signup_requests_only(username, name, password, role, salt) ==
  IF HasRequest(username)
    THEN /\ last' = Request("signup", [username |-> username], TRUE,
                            HTTPException(400, "Username already exists"))
         /\ UNCHANGED authVars
    ELSE /\ nextReqId <= MaxRequests
         /\ signup_requests' = signup_requests \cup
              {[id |-> nextReqId, username |-> username, name |-> name,
                password_hash |-> pwd_hash(password, salt), role |-> role,
                status |-> "pending"]}
         /\ nextReqId' = nextReqId + 1
         /\ last' = Request("signup", [username |-> username], TRUE,
                            Ok([id |-> nextReqId, message |-> "Signup request submitted",
                                status |-> "pending"]))
         /\ UNCHANGED <<users, approvals, approvedNames>>

\* POST /signup
signup(username, name, password, role, salt) ==
  IF HasUser(username) \/ HasRequest(username)
    THEN /\ last' = Request("signup", [username |-> username], TRUE,
                            HTTPException(400, "Username already exists"))
         /\ UNCHANGED authVars
    ELSE /\ nextReqId <= MaxRequests
         /\ signup_requests' = signup_requests \cup
              {[id |-> nextReqId, username |-> username, name |-> name,
                password_hash |-> pwd_hash(password, salt), role |-> role,
                status |-> "pending"]}
         /\ nextReqId' = nextReqId + 1
         /\ last' = Request("signup", [username |-> username], TRUE,
                            Ok([id |-> nextReqId, message |-> "Signup request submitted",
                                status |-> "pending"]))
         /\ UNCHANGED <<users, approvals, approvedNames>>

login_no_verify(username, password, utcnow) ==
  LET user == UserByName(username) IN
  /\ last' = Request("login", [username |-> username, password |-> password], TRUE,
       IF ~HasUser(username)
         THEN HTTPException(401, "Invalid credentials")
         ELSE Ok([access_token |->
                    create_access_token([sub |-> user.username, role |-> user.role], utcnow),
                  token_type |-> "bearer"]))
  /\ UNCHANGED authVars

\* POST /login
login(username, password, utcnow) ==
  LET user == UserByName(username) IN
  /\ last' = Request("login", [username |-> username, password |-> password], TRUE,
       IF ~HasUser(username) \/ ~pwd_verify(password, user.password_hash)
         THEN HTTPException(401, "Invalid credentials")
         ELSE Ok([access_token |->
                    create_access_token([sub |-> user.username, role |-> user.role], utcnow),
                  token_type |-> "bearer"]))
  /\ UNCHANGED authVars

\* GET /users/requests
get_pending_requests ==
  /\ last' = Request("get_pending_requests", None, TRUE,
       Ok({[id |-> r.id, role |-> r.role, username |-> r.username, name |-> r.name] :
             r \in {q \in signup_requests : q.status = "pending"}}))
  /\ UNCHANGED authVars

\* the User row APPROVE builds from a request
NewUser(signup_req) ==
  [username |-> signup_req.username, name |-> signup_req.name,
   password_hash |-> signup_req.password_hash, role |-> signup_req.role,
   is_active |-> TRUE]

manage_user_keep_request(request_id, action) ==
  LET args == [request_id |-> request_id, action |-> action] IN
  IF ~\E r \in signup_requests : r.id = request_id
    THEN /\ last' = Request("manage_user", args, TRUE,
                            HTTPException(404, "Signup request not found"))
         /\ UNCHANGED authVars
    ELSE LET signup_req == CHOOSE r \in signup_requests : r.id = request_id IN
      IF Upper(action) = APPROVE
        THEN /\ users' = users \cup {NewUser(signup_req)}
             /\ approvals' = [approvals EXCEPT ![request_id] = @ + 1]
             /\ approvedNames' = approvedNames \cup {signup_req.username}
             /\ last' = Request("manage_user", args, TRUE,
                                Ok([message |-> <<"approved", signup_req.username>>]))
             /\ UNCHANGED <<signup_requests, nextReqId>>
        ELSE /\ last' = Request("manage_user", args, TRUE,
                                HTTPException(400, "Invalid action. Use APPROVE or DECLINE."))
             /\ UNCHANGED authVars

\* POST /users/manage
manage_user(request_id, action) ==
  LET args == [request_id |-> request_id, action |-> action] IN
  IF ~\E r \in signup_requests : r.id = request_id
    THEN /\ last' = Request("manage_user", args, TRUE,
                            HTTPException(404, "Signup request not found"))
         /\ UNCHANGED authVars
    ELSE LET signup_req == CHOOSE r \in signup_requests : r.id = request_id IN
      IF Upper(action) = APPROVE
        THEN IF HasUser(signup_req.username)
          \* users.username is unique: the commit raises IntegrityError
          THEN /\ last' = Request("manage_user", args, TRUE, ServerError("IntegrityError"))
               /\ UNCHANGED authVars
          ELSE /\ users' = users \cup {NewUser(signup_req)}
               /\ signup_requests' = signup_requests \ {signup_req}
               /\ approvals' = [approvals EXCEPT ![request_id] = @ + 1]
               /\ approvedNames' = approvedNames \cup {signup_req.username}
               /\ last' = Request("manage_user", args, TRUE,
                                  Ok([message |-> <<"approved", signup_req.username>>]))
               /\ UNCHANGED nextReqId
      ELSE IF Upper(action) = DECLINE
        THEN /\ signup_requests' = signup_requests \ {signup_req}
             /\ last' = Request("manage_user", args, TRUE,
                                Ok([message |-> <<"declined", signup_req.username>>]))
             /\ UNCHANGED <<users, nextReqId, approvals, approvedNames>>
        ELSE /\ last' = Request("manage_user", args, TRUE,
                                HTTPException(400, "Invalid action. Use APPROVE or DECLINE."))
             /\ UNCHANGED authVars


(***************************************************************************)
(* Text: a transcript is a tuple of tokens, " " standing for white space.  *)
(***************************************************************************)
Min(S) == CHOOSE x \in S : \A y \in S : x <= y
Max(S) == CHOOSE x \in S : \A y \in S : x >= y

\* the sequences over S of length n at most
RECURSIVE SeqsUpTo(_, _)
SeqsUpTo(S, n) ==
  IF n = 0 THEN {<<>>}
  ELSE LET shorter == SeqsUpTo(S, n - 1) IN
       shorter \cup {Append(q, x) : q \in shorter, x \in S}

\* str.strip()
Strip(s) ==
  LET keep == {i \in DOMAIN s : s[i] # " "} IN
  IF keep = {} THEN <<>> ELSE SubSeq(s, Min(keep), Max(keep))

IsWord(t) == t # " "

\* SentenceTransformersTokenTextSplitter.split_text: the tokens of the text in
\* consecutive chunks of ChunkTokens tokens (the overlap is smaller than a chunk)
Chunks(text) ==
  LET tokens == SelectSeq(text, IsWord)
      n == Len(tokens)
      count == (n + ChunkTokens - 1) \div ChunkTokens
  IN [k \in 1..count |->
        SubSeq(tokens, (k - 1) * ChunkTokens + 1, Min({k * ChunkTokens, n}))]

Allowed == {"a","b","c","_","-"}
\* sanitize_filename: re.sub(r'[^A-Za-z0-9_\-]+', '_', title), every run of other
\* characters becoming one underscore
RECURSIVE sanitize_filename(_)
sanitize_filename(title) ==
  IF title = <<>> THEN <<>>
  ELSE IF Head(title) \in Allowed THEN <<Head(title)>> \o sanitize_filename(Tail(title))
  ELSE IF Len(title) > 1 /\ title[2] \notin Allowed THEN sanitize_filename(Tail(title))
  ELSE <<"_">> \o sanitize_filename(Tail(title))

(***************************************************************************)
(* The vector store: the collections that exist and the documents in them, *)
(* each under the directory (a path, as a tuple of components) it is       *)
(* persisted in.                                                           *)
(***************************************************************************)
\* the directory a path names: "." components do not count
Resolve(path) == SelectSeq(path, LAMBDA c : c # ".")

\* embeddings.py: persist_directory = "chroma_db"
persist_directory == <<"chroma_db">>
\* chatbot.py: PERSIST_DIR = os.getenv("CHROMA_DB_DIR", "chroma_db")
PERSIST_DIR == IF environ = <<>> THEN <<"chroma_db">> ELSE environ
\* the values CHROMA_DB_DIR may have; <<>> is "not set"
ChromaDirs == {<<>>, <<"chroma_db">>, <<".", "chroma_db">>, <<"other_db">>}

\* the collection name both modules derive from a title
CollectionName(video_title) == Replace(video_title, " ", "_")

DocsIn(store, location, collection) ==
  {d \in store.docs : d.location = location /\ d.collection = collection}

\* the ways the embedding of a transcript may fail by itself: in the splitter
\* (before the collection is opened) or in collection.add (after it)
EmbedFailures == {"split", "add"}

\* embed_and_store_transcript(transcript, video_title): [ok, chroma].
\* chromadb releases differ on a degenerate add(): one with no document, or one with
\* ids the collection already holds, raises in some (strict) and is skipped in others.
embed_and_store_transcript(transcript, video_title, fails, strict) ==
  LET chunks == Chunks(transcript)
      location == Resolve(persist_directory)
      name == CollectionName(video_title)
      created == [chroma EXCEPT !.collections = @ \cup {<<location, name>>}]
      present == {d.id : d \in DocsIn(chroma, location, name)}
      new == {[location |-> location, collection |-> name,
               id |-> <<video_title, i - 1>>, document |-> chunks[i]] :
                i \in {j \in DOMAIN chunks : <<video_title, j - 1>> \notin present}}
      dup == \E j \in DOMAIN chunks : <<video_title, j - 1>> \in present
  IN IF fails = "split" THEN [ok |-> FALSE, chroma |-> chroma]
     ELSE IF fails = "add" \/ ((chunks = <<>> \/ dup) /\ strict)
       THEN [ok |-> FALSE, chroma |-> created]
       ELSE [ok |-> TRUE, chroma |-> [created EXCEPT !.docs = @ \cup new]]

(***************************************************************************)
(* app/services/mcqs_generation.py                                         *)
(***************************************************************************)
\* an optional list: Python's None, or a list
NoList == [none |-> TRUE, list |-> <<>>]
List(l) == [none |-> FALSE, list |-> l]
\* the truth value of an optional list
Truthy(o) == ~o.none /\ o.list # <<>>

\* the JSON objects and scalars the model may return as elements of its array: a
\* multiple-choice item, a true/false item, a multiple-choice item whose options
\* are the empty array, an item without a question, and a number
McqItem == [dict |-> TRUE, question |-> "Q1", options |-> List(<<"A", "B">>),
            answer |-> "A", type |-> "mcq"]
TfItem == [dict |-> TRUE, question |-> "Q2", options |-> NoList,
           answer |-> "True", type |-> "true_false"]
McqNoOptionsItem == [dict |-> TRUE, question |-> "Q3", options |-> List(<<>>),
                     answer |-> "B", type |-> "mcq"]
NoQuestionItem == [dict |-> TRUE, question |-> None, options |-> NoList,
                   answer |-> "False", type |-> "true_false"]
NotDictItem == [dict |-> FALSE, question |-> None, options |-> NoList,
                answer |-> None, type |-> None]
\* an object that is no question at all, such as {"questions": [...]}
OtherDict == [dict |-> TRUE, question |-> None, options |-> NoList,
              answer |-> None, type |-> None]
Items == {McqItem, TfItem, McqNoOptionsItem, NoQuestionItem, NotDictItem}

\* The text of a response is a sequence of tokens: white space " ", the markdown
\* fence "~~~", the word "json", other prose "txt", the brackets and braces of
\* JSON, and one token for each element of Items.
ItemTokens == {"mcq", "tf", "mcq0", "noq", "num"}
ItemOf(token) ==
  CASE token = "mcq" -> McqItem
    [] token = "tf" -> TfItem
    [] token = "mcq0" -> McqNoOptionsItem
    [] token = "noq" -> NoQuestionItem
    [] OTHER -> NotDictItem
StoredTokens == {"mcq", "tf", "mcq0"}
\* the lists of items of which at most the last one fails
ItemLists ==
  {q \in SeqsUpTo(ItemTokens, MaxItems) :
     \A i \in 1..(Len(q) - 1) : q[i] \in StoredTokens}

\* str.startswith / str.endswith on the first and last token
StartsWith(text, token) == text # <<>> /\ text[1] = token
EndsWith(text, token) == text # <<>> /\ text[Len(text)] = token
Tail2(text, n) == SubSeq(text, n + 1, Len(text))

\* text[text.index("["):text.rindex("]") + 1] when the text has both brackets
CutArray(text) ==
  LET opens == {i \in DOMAIN text : text[i] = "["}
      closes == {i \in DOMAIN text : text[i] = "]"}
  IN IF opens # {} /\ closes # {} THEN SubSeq(text, Min(opens), Max(closes))
     ELSE text
\* if text.endswith(fence): text = text[:-3].strip()
DropClosingFence(text) ==
  IF EndsWith(text, "~~~") THEN Strip(SubSeq(text, 1, Len(text) - 1)) ELSE text
\* if text.startswith(fence): re.sub of the fence and of "json" after it, strip()
DropFences(text) ==
  IF StartsWith(text, "~~~")
    THEN DropClosingFence(Strip(Tail2(text, IF Len(text) > 1 /\ text[2] = "json"
                                              THEN 2 ELSE 1)))
    ELSE text

\* extract_json_from_text(text)
extract_json_from_text(text) ==
  IF text = <<>> THEN text ELSE CutArray(DropFences(Strip(text)))

\* The grammar of JSON on tokens (commas, keys and strings are inside the tokens):
\* a value is an element token, an array [ value* ], or an object { value? } that
\* holds a value under some key.  The scan keeps the stack of the arrays and
\* objects that are open, each with the number of values it holds so far; `top`
\* counts the values outside every array and object.
RECURSIVE JsonScan(_, _, _, _)
JsonScan(t, i, stack, top) ==
  LET depth == Len(stack)
      \* a value may start here
      free == IF depth = 0 THEN top = 0
              ELSE stack[depth].open = "[" \/ stack[depth].n = 0
      \* the value that ends here is counted where it stands
      counted == IF depth <= 1 THEN SubSeq(stack, 1, 0)
                 ELSE [SubSeq(stack, 1, depth - 1) EXCEPT ![depth - 1].n = @ + 1]
      held == IF depth = 0 THEN stack ELSE [stack EXCEPT ![depth].n = @ + 1]
  IN IF i > Len(t) THEN depth = 0 /\ top = 1
     ELSE IF t[i] \in ItemTokens
       THEN free /\ JsonScan(t, i + 1, held, IF depth = 0 THEN top + 1 ELSE top)
     ELSE IF t[i] \in {"[", "{"}
       THEN free /\ JsonScan(t, i + 1, Append(stack, [open |-> t[i], n |-> 0]), top)
     ELSE IF t[i] \in {"]", "}"}
       THEN /\ depth > 0
            /\ stack[depth].open = (IF t[i] = "]" THEN "[" ELSE "{")
            /\ JsonScan(t, i + 1, counted, IF depth = 1 THEN top + 1 ELSE top)
     ELSE FALSE

\* the number of arrays and objects open before token i
Depth(t, i) ==
  Cardinality({k \in 1..(i - 1) : t[k] \in {"[", "{"}})
    - Cardinality({k \in 1..(i - 1) : t[k] \in {"]", "}"}})
\* the elements of the array that the valid text t is, in their order
Elements(t) ==
  LET starts == {i \in 2..(Len(t) - 1) : Depth(t, i) = 1 /\ t[i] \notin {"]", "}"}}
      nth(k) == CHOOSE i \in starts : Cardinality({j \in starts : j < i}) = k - 1
  IN [k \in 1..Cardinality(starts) |->
        IF t[nth(k)] = "[" THEN NotDictItem
        ELSE IF t[nth(k)] = "{" THEN OtherDict
        ELSE ItemOf(t[nth(k)])]

\* the value json.loads gives for the tokens t, valid or not: [ok, list, items]
JsonValue(t, ok) ==
  [ok |-> ok, list |-> ok /\ t[1] = "[",
   items |-> IF ok /\ t[1] = "[" THEN Elements(t) ELSE <<>>]
JsonTokens(t) == JsonValue(t, t # <<>> /\ JsonScan(t, 1, <<>>, 0))
\* json.loads(text); white space between tokens is skipped
json_loads(text) == JsonTokens(SelectSeq(text, IsWord))

\* the JSON text of a list of items
Json(q) == <<"[">> \o q \o <<"]">>
\* the response texts: the bare array of every list of items, and one array
\* inside a markdown fence, inside prose, and inside an object; a lone object, a
\* lone object in prose, prose alone, and an array cut short
Responses ==
  {Json(q) : q \in ItemLists}
    \cup {<<"~~~", "json", " ">> \o Json(<<"tf">>) \o <<" ", "~~~">>,
          <<"~~~", " ">> \o Json(<<"mcq">>) \o <<" ", "~~~">>,
          <<"txt", " ">> \o Json(<<"tf">>) \o <<" ", "txt">>,
          <<"{">> \o Json(<<"mcq">>) \o <<"}">>,
          <<"tf">>, <<"{", "tf", "}">>, <<"txt", " ", "tf">>, <<"txt">>,
          <<"[", "tf">>, <<"]", "tf", "[">>}

\* what generate_content comes to: it raises, or it returns a text
ApiError == [kind |-> "api_error", text |-> <<>>]
Text(t) == [kind |-> "text", text |-> t]
LlmOutcomes == {ApiError} \cup {Text(t) : t \in Responses}
\* the list the response parses to, empty when it does not
Parsed(llm) == json_loads(extract_json_from_text(llm.text))

\* the MCQ row built from one item
McqRow(item, id, video_title) ==
  [id |-> id, video_title |-> video_title, question |-> item.question,
   options |-> IF item.type = "mcq" THEN item.options ELSE NoList,
   answer |-> item.answer]

\* the result of a call that raised: the table is as it was
Raised(exc) == [ok |-> FALSE, exc |-> exc, mcqs |-> mcqs, nextMcqId |-> nextMcqId]
\* an item the loop or the commit fails on: item.get raises on an element that is
\* no object, and question and answer are NOT NULL
Fails(item) == ~item.dict \/ item.question = None \/ item.answer = None

\* a commit after every item: the rows before the failing item stay
StoreEach(items, video_title, n) ==
  [ok |-> n = Len(items), exc |-> IF n = Len(items) THEN None ELSE "RuntimeError",
   mcqs |-> mcqs \o [i \in 1..n |-> McqRow(items[i], nextMcqId + i - 1, video_title)],
   nextMcqId |-> nextMcqId + n]
StoreUntilFailure(parsed, video_title) ==
  IF ~parsed.ok \/ ~parsed.list THEN Raised("ValueError")
  ELSE StoreEach(parsed.items, video_title,
                 Cardinality({i \in DOMAIN parsed.items :
                                \A j \in 1..i : ~Fails(parsed.items[j])}))
generate_and_store_mcqs_commit_each(transcript, video_title, llm) ==
  IF transcript = <<>> \/ Strip(transcript) = <<>> THEN Raised("ValueError")
  ELSE IF llm.kind = "api_error" THEN Raised("RuntimeError")
  ELSE StoreUntilFailure(Parsed(llm), video_title)

\* the loop over mcqs_data and the commit: every row, or the rollback
StoreItems(items, video_title) ==
  IF \E i \in DOMAIN items : Fails(items[i]) THEN Raised("RuntimeError")
  ELSE [ok |-> TRUE, exc |-> None,
        mcqs |-> mcqs \o [i \in DOMAIN items |->
                            McqRow(items[i], nextMcqId + i - 1, video_title)],
        nextMcqId |-> nextMcqId + Len(items)]
\* json.loads raised, or the value is no list: ValueError
StoreParsed(parsed, video_title) ==
  IF ~parsed.ok \/ ~parsed.list THEN Raised("ValueError")
  ELSE StoreItems(parsed.items, video_title)

\* generate_and_store_mcqs(transcript, video_title, db): [ok, exc, mcqs, nextMcqId]
generate_and_store_mcqs(transcript, video_title, llm) ==
  IF transcript = <<>> \/ Strip(transcript) = <<>> THEN Raised("ValueError")
  ELSE IF llm.kind = "api_error" THEN Raised("RuntimeError")
  ELSE StoreParsed(Parsed(llm), video_title)

(***************************************************************************)
(* app/routers/video_upload.py                                             *)
(***************************************************************************)
Titles == {<<"a", " ", "b">>, <<"a", "_", "b">>}
\* what the speech-to-text service may return, before strip(): nothing, or up to
\* MaxWords words with white space around them
RawTranscripts ==
  {<<>>} \cup {<<" ">> \o [i \in 1..n |-> "x"] \o <<" ">> : n \in 0..MaxWords}

\* the steps of an upload, in the order the handlers take them
UploadSteps(first) ==
  <<first, "extract_audio", "transcribe", "commit", "embed", "generate">>
\* the external steps that may fail on their own
StepFailures == {"none", "first", "extract_audio", "transcribe", "commit"} \cup EmbedFailures

\* upload_video from "store" on, upload_youtube_video from "download" on: the two
\* handlers differ in their first step and in their messages only.
\* save_video_and_transcript is the "commit" and "embed" steps.
upload_steps_skip_failed_audio(route, first, first_detail, title, fail, raw, strict, llm) ==
  LET steps == UploadSteps(first)
      done(n, failed, resp) ==
        last' = Request(route, [title |-> title, fault |-> fail,
                                steps |-> SubSeq(steps, 1, n), failed |-> failed],
                        TRUE, resp)
      transcript == Strip(raw)
      video == [id |-> nextVideoId, title |-> title,
                filename |-> <<sanitize_filename(title), nextVideoId>>,
                transcript |-> transcript]
      emb == embed_and_store_transcript(transcript, title, fail, strict)
      gen == generate_and_store_mcqs(transcript, title, llm)
  IN
  IF fail = "first"
    THEN /\ done(1, first, HTTPException(500, first_detail))
         /\ UNCHANGED appVars
  ELSE IF fail = "transcribe"
    THEN /\ done(3, "transcribe", HTTPException(500, "Transcription failed"))
         /\ UNCHANGED appVars
  ELSE IF fail = "commit"
    THEN /\ done(4, "commit", HTTPException(500, "Saving video failed"))
         /\ UNCHANGED appVars
  ELSE
    /\ videos' = videos \cup {video}
    /\ nextVideoId' = nextVideoId + 1
    /\ chroma' = emb.chroma
    /\ UNCHANGED <<environ, chat_sessions, asked>>
    /\ IF ~emb.ok
         THEN /\ done(5, "embed", HTTPException(500, "Saving video failed"))
              /\ UNCHANGED <<mcqs, nextMcqId>>
         ELSE /\ mcqs' = gen.mcqs
              /\ nextMcqId' = gen.nextMcqId
              /\ IF ~gen.ok
                   THEN done(6, "generate", HTTPException(500, "MCQ generation failed"))
                   ELSE done(6, "none",
                          Ok([id |-> video.id, message |-> "success",
                              transcript |-> transcript]))

upload_steps(route, first, first_detail, title, fail, raw, strict, llm) ==
  LET steps == UploadSteps(first)
      done(n, failed, resp) ==
        last' = Request(route, [title |-> title, fault |-> fail,
                                steps |-> SubSeq(steps, 1, n), failed |-> failed],
                        TRUE, resp)
      transcript == Strip(raw)
      video == [id |-> nextVideoId, title |-> title,
                filename |-> <<sanitize_filename(title), nextVideoId>>,
                transcript |-> transcript]
      emb == embed_and_store_transcript(transcript, title, fail, strict)
      gen == generate_and_store_mcqs(transcript, title, llm)
  IN
  IF fail = "first"
    THEN /\ done(1, first, HTTPException(500, first_detail))
         /\ UNCHANGED appVars
  ELSE IF fail = "extract_audio"
    THEN /\ done(2, "extract_audio", HTTPException(500, "Audio extraction failed"))
         /\ UNCHANGED appVars
  ELSE IF fail = "transcribe"
    THEN /\ done(3, "transcribe", HTTPException(500, "Transcription failed"))
         /\ UNCHANGED appVars
  ELSE IF fail = "commit"
    \* db.commit() raised: rollback, no row
    THEN /\ done(4, "commit", HTTPException(500, "Saving video failed"))
         /\ UNCHANGED appVars
  ELSE
    \* the Video row is committed before the transcript is embedded; the rollback
    \* after a failed embedding finds nothing to undo
    /\ videos' = videos \cup {video}
    /\ nextVideoId' = nextVideoId + 1
    /\ chroma' = emb.chroma
    /\ UNCHANGED <<environ, chat_sessions, asked>>
    /\ IF ~emb.ok
         THEN /\ done(5, "embed", HTTPException(500, "Saving video failed"))
              /\ UNCHANGED <<mcqs, nextMcqId>>
         ELSE /\ mcqs' = gen.mcqs
              /\ nextMcqId' = gen.nextMcqId
              /\ IF ~gen.ok
                   THEN done(6, "generate", HTTPException(500, "MCQ generation failed"))
                   ELSE done(6, "none",
                          Ok([id |-> video.id, message |-> "success",
                              transcript |-> transcript]))

\* POST /upload-video/
upload_video(title, has_filename, fail, raw, strict, llm) ==
  IF ~has_filename
    THEN /\ last' = Request("upload_video", [title |-> title, fault |-> "none",
                                             steps |-> <<>>, failed |-> "none"], TRUE,
                            HTTPException(400, "No file uploaded"))
         /\ UNCHANGED appVars
    ELSE upload_steps("upload_video", "store", "File saving failed",
                      title, fail, raw, strict, llm)

\* POST /upload-youtube/
upload_youtube_video(title, fail, raw, strict, llm) ==
  upload_steps("upload_youtube_video", "download", "Failed to download video",
               title, fail, raw, strict, llm)

(***************************************************************************)
(* app/routers/video_list.py, video_approve.py                             *)
(***************************************************************************)
\* GET /videos/
list_videos ==
  /\ last' = Request("list_videos", None, TRUE,
       Ok({[id |-> v.id, title |-> v.title, transcript_preview |-> Strip(v.transcript)] :
             v \in videos}))
  /\ UNCHANGED appVars

DELETE == <<"d","e","l","e","t","e">>
APPROVE_LOWER == <<"a","p","p","r","o","v","e">>
ReviewActions == {DELETE, <<"D","e","l","e","t","e">>, APPROVE_LOWER, <<"k","e","e","p">>}

\* POST /videos-approval/review-video/
review_video(title, action, llm) ==
  LET args(video_id) == [title |-> title, action |-> action, video_id |-> video_id] IN
  IF ~\E v \in videos : v.title = title
    THEN /\ last' = Request("review_video", args(0), TRUE,
                            HTTPException(404, "Video not found"))
         /\ UNCHANGED appVars
    ELSE \E video \in {v \in videos : v.title = title} :
      IF Lower(action) = DELETE
        \* the filter MCQ.video_id == video.id is evaluated first: class MCQ has no
        \* attribute video_id, so AttributeError is raised before anything is deleted
        THEN /\ last' = Request("review_video", args(video.id), TRUE,
                                ServerError("AttributeError"))
             /\ UNCHANGED appVars
      ELSE IF Lower(action) = APPROVE_LOWER
        THEN IF video.transcript = <<>>
          THEN /\ last' = Request("review_video", args(video.id), TRUE,
                                  HTTPException(400, "Transcript missing for this video"))
               /\ UNCHANGED appVars
          ELSE LET gen == generate_and_store_mcqs(video.transcript, video.title, llm) IN
               /\ mcqs' = gen.mcqs
               /\ nextMcqId' = gen.nextMcqId
               /\ last' = Request("review_video", args(video.id), TRUE,
                            IF gen.ok THEN Ok([message |-> <<"approved", title>>])
                            ELSE HTTPException(500, "MCQ generation failed"))
               /\ UNCHANGED <<videos, nextVideoId, environ, chroma, chat_sessions, asked>>
      ELSE /\ last' = Request("review_video", args(video.id), TRUE,
                              HTTPException(400, "Invalid action. Use 'delete' or 'approve'."))
           /\ UNCHANGED appVars

(***************************************************************************)
(* app/routers/quiz.py, delete_mcqs.py, take_quiz.py                       *)
(***************************************************************************)
\* query(MCQ).filter(MCQ.video_title == video_title).all()
McqsOf(table, video_title) == SelectSeq(table, LAMBDA q : q.video_title = video_title)

\* GET /view-mcqs/by-title
get_mcqs_by_video_title(video_title, download) ==
  LET rows == McqsOf(mcqs, video_title)
      questions == [i \in DOMAIN rows |->
        [id |-> rows[i].id, question |-> rows[i].question,
         options |-> IF Truthy(rows[i].options) THEN rows[i].options ELSE NoList,
         answer |-> rows[i].answer,
         type |-> IF Truthy(rows[i].options) THEN "mcq" ELSE "true_false"]]
  IN /\ last' = Request("get_mcqs_by_video_title", [video_title |-> video_title], TRUE,
          IF rows = <<>> THEN HTTPException(404, "No MCQs found for video title")
          ELSE Ok([video_title |-> video_title, questions |-> questions,
                   as_file |-> download]))
     /\ UNCHANGED appVars

\* DELETE /mcqs/{mcq_id}
delete_mcq(mcq_id) ==
  IF ~\E i \in DOMAIN mcqs : mcqs[i].id = mcq_id
    THEN /\ last' = Request("delete_mcq", [mcq_id |-> mcq_id], TRUE,
                            HTTPException(404, "MCQ not found"))
         /\ UNCHANGED appVars
    ELSE /\ mcqs' = SelectSeq(mcqs, LAMBDA q : q.id # mcq_id)
         /\ last' = Request("delete_mcq", [mcq_id |-> mcq_id], TRUE,
                            Ok([message |-> <<"deleted", mcq_id>>]))
         /\ UNCHANGED <<videos, nextVideoId, nextMcqId, environ, chroma,
                        chat_sessions, asked>>

quiz_response_with_answer(table, video_title) ==
  LET questions == McqsOf(table, video_title) IN
  IF questions = <<>> THEN HTTPException(404, "No quiz found for this video.")
  ELSE Ok([i \in DOMAIN questions |->
            [question |-> questions[i].question,
             options |-> IF Truthy(questions[i].options)
                           THEN questions[i].options.list
                           ELSE <<questions[i].answer>>]])

\* the response of get_quiz_questions over a table of MCQ rows
quiz_response(table, video_title) ==
  LET questions == McqsOf(table, video_title) IN
  IF questions = <<>> THEN HTTPException(404, "No quiz found for this video.")
  ELSE Ok([i \in DOMAIN questions |->
            [question |-> questions[i].question,
             options |-> IF Truthy(questions[i].options)
                           THEN questions[i].options.list
                           ELSE <<"True", "False">>]])

\* GET /take-quiz/{video_title}
get_quiz_questions(video_title) ==
  /\ last' = Request("get_quiz_questions", [video_title |-> video_title], TRUE,
                     quiz_response(mcqs, video_title))
  /\ UNCHANGED appVars

(***************************************************************************)
(* app/services/prompt_template.py, chatbot.py, routers/chatbot_router.py  *)
(***************************************************************************)
Sessions == {"s1", "s2"}
Queries == {"q1", "q2"}
Replies == {"r1"}
\* MMR retrieval: search_kwargs k
RetrieverK == 5

\* format_chat_history: one numbered line per turn
format_chat_history(history) ==
  IF history = <<>>
    THEN <<[n |-> 0, user |-> "No previous messages.", bot |-> ""]>>
    ELSE [i \in DOMAIN history |->
            [n |-> i, user |-> history[i].user, bot |-> history[i].bot]]

\* build_chat_prompt: the values the template is rendered with
build_chat_prompt(video_title, context, session_history, user_query) ==
  [video_title |-> video_title,
   context |-> IF context = {} THEN {"No relevant context available."} ELSE context,
   formatted_history |-> format_chat_history(session_history),
   user_query |-> user_query]

\* the store chat_with_video opens for a title
ChatStore(video_title) ==
  [location |-> Resolve(PERSIST_DIR), collection |-> CollectionName(video_title)]
\* the store embed_and_store_transcript writes a title to
EmbedStore(video_title) ==
  [location |-> Resolve(persist_directory), collection |-> CollectionName(video_title)]

\* the sets of documents an MMR search with k results may return
Retrievable(docs) ==
  {R \in SUBSET docs : Cardinality(R) = Min({RetrieverK, Cardinality(docs)})}

ChatFailures == {"none", "retrieve", "generate"}

RECURSIVE TotalTurns(_, _)
TotalTurns(log, S) ==
  IF S = {} THEN 0
  ELSE LET s == CHOOSE x \in S : TRUE IN Len(log[s]) + TotalTurns(log, S \ {s})

chat_endpoint_append_first(video_title, user_query, session_id, fails, reply) ==
  LET history == IF session_id \in DOMAIN chat_sessions
                   THEN chat_sessions[session_id] ELSE <<>>
      store == ChatStore(video_title)
      exchange == [user |-> user_query, bot |-> reply]
      args == [session_id |-> session_id, video_title |-> video_title,
               user_query |-> user_query, passed |-> Append(history, exchange),
               store |-> store, retrieved |-> {},
               prompt |-> build_chat_prompt(video_title, {}, Append(history, exchange),
                                            user_query)]
  IN /\ chroma' = [chroma EXCEPT !.collections = @ \cup {<<store.location, store.collection>>}]
     /\ chat_sessions' = [s \in DOMAIN chat_sessions \cup {session_id} |->
                            IF s = session_id THEN Append(history, exchange)
                            ELSE chat_sessions[s]]
     /\ asked' = IF fails = "none"
                   THEN [asked EXCEPT ![session_id] = Append(@, exchange)] ELSE asked
     /\ last' = Request("chat_endpoint", args, TRUE,
                  IF fails = "none" THEN Ok([response |-> reply])
                  ELSE ServerError("Exception"))
     /\ UNCHANGED <<videos, mcqs, nextVideoId, nextMcqId, environ>>

\* POST /chatbot/ask, chat_with_video included
chat_endpoint(video_title, user_query, session_id, fails, reply) ==
  LET \* chat_sessions.setdefault(session_id, [])
      history == IF session_id \in DOMAIN chat_sessions
                   THEN chat_sessions[session_id] ELSE <<>>
      sessions == [s \in DOMAIN chat_sessions \cup {session_id} |->
                     IF s = session_id THEN history ELSE chat_sessions[s]]
      \* Chroma(collection_name, persist_directory): get-or-create of the collection
      store == ChatStore(video_title)
      opened == [chroma EXCEPT
                   !.collections = @ \cup {<<store.location, store.collection>>}]
      docs == DocsIn(chroma, store.location, store.collection)
      exchange == [user |-> user_query, bot |-> reply]
      args(retrieved) ==
        [session_id |-> session_id, video_title |-> video_title,
         user_query |-> user_query, passed |-> history, store |-> store,
         retrieved |-> retrieved,
         prompt |-> build_chat_prompt(video_title, {d.document : d \in retrieved},
                                      history, user_query)]
  IN /\ chroma' = opened
     /\ UNCHANGED <<videos, mcqs, nextVideoId, nextMcqId, environ>>
     /\ IF fails = "retrieve"
          THEN /\ chat_sessions' = sessions
               /\ asked' = asked
               /\ last' = Request("chat_endpoint", args({}), TRUE, ServerError("Exception"))
          ELSE \E retrieved \in Retrievable(docs) :
            IF fails = "generate"
              THEN /\ chat_sessions' = sessions
                   /\ asked' = asked
                   /\ last' = Request("chat_endpoint", args(retrieved), TRUE,
                                      ServerError("Exception"))
              ELSE \* history.append({"user": user_query, "bot": reply})
                   /\ chat_sessions' = [sessions EXCEPT ![session_id] = Append(@, exchange)]
                   /\ asked' = [asked EXCEPT ![session_id] = Append(@, exchange)]
                   /\ last' = Request("chat_endpoint", args(retrieved), TRUE,
                                      Ok([response |-> reply]))

(***************************************************************************)
(* The state after startup: create_all has made the tables, all empty.     *)
(***************************************************************************)
InitAuth ==
  /\ users = {}
  /\ signup_requests = {}
  /\ nextReqId = 1
  /\ approvals = [i \in 1..MaxRequests |-> 0]
  /\ approvedNames = {}

InitApp ==
  /\ videos = {}
  /\ mcqs = <<>>
  /\ nextVideoId = 1
  /\ nextMcqId = 1
  /\ environ \in ChromaDirs
  /\ chroma = [collections |-> {}, docs |-> {}]
  /\ chat_sessions = <<>>
  /\ asked = [s \in Sessions |-> <<>>]

Init ==
  /\ InitAuth
  /\ InitApp
  /\ caller = NoCaller
  /\ last = Request("startup", None, FALSE, Ok(None))

\* the state after startup with CHROMA_DB_DIR not set
InitUnset == Init /\ environ = <<>>

(***************************************************************************)
(* The authentication routes (app/main.py: no role dependency on them).    *)
(***************************************************************************)
Signup ==
  /\ \E username \in Usernames, name \in Names, password \in Passwords,
        role \in UserRole, salt \in Salts :
       signup(username, name, password, role, salt)
  /\ caller' = NoCaller
  /\ UNCHANGED appVars

Login ==
  /\ \E username \in Usernames, password \in Passwords, utcnow \in Times :
       login(username, password, utcnow)
  /\ caller' = NoCaller
  /\ UNCHANGED appVars

GetPendingRequests ==
  /\ get_pending_requests
  /\ caller' = NoCaller
  /\ UNCHANGED appVars

ManageUser ==
  /\ \E request_id \in 1..MaxRequests, action \in ManageActions :
       manage_user(request_id, action)
  /\ caller' = NoCaller
  /\ UNCHANGED appVars

NextAuth == Signup \/ Login \/ GetPendingRequests \/ ManageUser

\* the authentication routes never read the environment
SpecAuth == InitUnset /\ [][NextAuth]_vars

(***************************************************************************)
(* The routers app/main.py includes with a role dependency.  A request     *)
(* carries a bearer token; the dependency runs before the handler.         *)
(***************************************************************************)
\* the bearer tokens a request may carry: the tokens login issues at time 0 to a
\* teacher and to a student, and tokens the server never issued
TeacherToken == create_access_token([sub |-> "ann", role |-> "teacher"], 0)
StudentToken == create_access_token([sub |-> "bob", role |-> "student"], 0)
TokenInputs ==
  {TeacherToken, StudentToken,
   create_access_token([sub |-> "eve", role |-> "admin"], 0),
   create_access_token([sub |-> "ann"], 0),
   create_access_token([role |-> "teacher"], 0),
   [TeacherToken EXCEPT !.key = "other_key"],
   [malformed |-> TRUE, key |-> None, claims |-> <<>>, exp |-> 0]}

\* a route of a router included with dependencies=[Depends(require_role(allowed_roles))]
Guarded(route, allowed_roles, in, handler) ==
  \E token \in in.tokens, utcnow \in in.times :
    LET u == require_role(allowed_roles, token, utcnow) IN
    /\ caller' = [present |-> TRUE, token |-> token, utcnow |-> utcnow]
    /\ UNCHANGED authVars
    /\ IF u.ok THEN handler
       ELSE /\ last' = Request(route, None, FALSE, u.exc)
            /\ UNCHANGED appVars

\* The inputs of the requests.  `in` names the sets they are drawn from; an input
\* the handler cannot reach under the chosen failure is fixed.
\* the outcomes that keep the uuids of the mcqs table within MaxMcqs
WithinMcqs(llms) == {l \in llms : nextMcqId + Len(Parsed(l).items) - 1 <= MaxMcqs}

UploadInputs(in, handler(_, _, _, _, _)) ==
  \E title \in in.titles, fail \in in.fails :
  \E raw \in IF fail \in {"none", "split", "add"} THEN in.raws ELSE {<<>>} :
  \E strict \in IF fail = "none" THEN in.stricts ELSE {FALSE} :
  \E llm \in IF fail = "none" /\ Strip(raw) # <<>>
               THEN WithinMcqs(in.llms) ELSE {ApiError} :
    handler(title, fail, raw, strict, llm)

UploadVideo(in) ==
  /\ nextVideoId <= MaxVideos
  /\ Guarded("upload_video", teacher_dependencies, in,
       \E has_filename \in BOOLEAN :
         LET handler(title, fail, raw, strict, llm) ==
               upload_video(title, has_filename, fail, raw, strict, llm)
         IN IF has_filename THEN UploadInputs(in, handler)
            ELSE \E title \in in.titles : handler(title, "none", <<>>, FALSE, ApiError))

UploadYoutubeVideo(in) ==
  /\ nextVideoId <= MaxVideos
  /\ Guarded("upload_youtube_video", teacher_dependencies, in,
       UploadInputs(in, upload_youtube_video))

ListVideos(in) == Guarded("list_videos", teacher_dependencies, in, list_videos)

ReviewVideo(in) ==
  Guarded("review_video", teacher_dependencies, in,
    \E title \in in.titles, action \in ReviewActions :
    \E llm \in IF Lower(action) = APPROVE_LOWER THEN WithinMcqs(in.llms) ELSE {ApiError} :
      review_video(title, action, llm))

GetMcqsByVideoTitle(in) ==
  Guarded("get_mcqs_by_video_title", teacher_dependencies, in,
    \E video_title \in in.titles, download \in BOOLEAN :
      get_mcqs_by_video_title(video_title, download))

DeleteMcq(in) ==
  Guarded("delete_mcq", teacher_dependencies, in,
    \E mcq_id \in 1..MaxMcqs : delete_mcq(mcq_id))

GetQuizQuestions(in) ==
  Guarded("get_quiz_questions", teacher_student_dependencies, in,
    \E video_title \in in.titles : get_quiz_questions(video_title))

ChatEndpoint(in) ==
  /\ TotalTurns(asked, Sessions) < MaxTurns
  /\ Guarded("chat_endpoint", teacher_student_dependencies, in,
       \E video_title \in in.titles, user_query \in in.queries,
          session_id \in in.sessions, fails \in ChatFailures, reply \in Replies :
         chat_endpoint(video_title, user_query, session_id, fails, reply))

\* generate_and_store_mcqs as upload_video, upload_youtube_video and review_video
\* call it, on every transcript, title and answer of the language model
GenerateAndStoreMcqs(in) ==
  /\ \E transcript \in in.raws, video_title \in in.titles, llm \in WithinMcqs(in.llms) :
       LET gen == generate_and_store_mcqs(transcript, video_title, llm) IN
       /\ mcqs' = gen.mcqs
       /\ nextMcqId' = gen.nextMcqId
       /\ last' = Request("generate_and_store_mcqs",
                          [transcript |-> transcript, video_title |-> video_title,
                           llm |-> llm], TRUE,
                          IF gen.ok THEN Ok([stored |-> Len(Parsed(llm).items)])
                          ELSE ServerError(gen.exc))
  /\ caller' = NoCaller
  /\ UNCHANGED authVars
  /\ UNCHANGED <<videos, nextVideoId, environ, chroma, chat_sessions, asked>>

\* every input
AllInputs ==
  [tokens |-> TokenInputs, times |-> Times, titles |-> Titles, fails |-> StepFailures,
   raws |-> RawTranscripts, stricts |-> BOOLEAN, llms |-> LlmOutcomes,
   queries |-> Queries, sessions |-> Sessions]

NextApp(in) ==
  \/ UploadVideo(in) \/ UploadYoutubeVideo(in) \/ ListVideos(in) \/ ReviewVideo(in)
  \/ GetMcqsByVideoTitle(in) \/ DeleteMcq(in) \/ GetQuizQuestions(in)
  \/ ChatEndpoint(in)

Next == NextAuth \/ NextApp(AllInputs)

Spec == Init /\ [][Next]_vars

\* The role dependency on every route: every token, the handlers on few inputs.
GateProfile ==
  [AllInputs EXCEPT !.titles = {<<"a", " ", "b">>},
                    !.fails = {"none", "transcribe"},
                    !.raws = {<<" ", "x", " ">>},
                    !.stricts = {FALSE},
                    !.llms = {ApiError, Text(Json(<<"tf">>))},
                    !.queries = {"q1"}, !.sessions = {"s1"}]
SpecGate == InitUnset /\ [][NextApp(GateProfile)]_vars

\* The uploads and reviews of one title, on every transcript and failure.
UploadProfile ==
  [AllInputs EXCEPT !.tokens = {TeacherToken}, !.times = {0},
                    !.titles = {<<"a", " ", "b">>},
                    !.llms = {ApiError, Text(Json(<<"tf">>))}]
NextUpload ==
  \/ UploadVideo(UploadProfile) \/ UploadYoutubeVideo(UploadProfile)
  \/ ListVideos(UploadProfile) \/ ReviewVideo(UploadProfile)
SpecUpload == InitUnset /\ [][NextUpload]_vars

\* The quiz routes on every title, over uploads that fail in the quiz generation
\* only; the language model fails or returns a list of items that are stored.
QuizProfile ==
  [AllInputs EXCEPT !.tokens = {TeacherToken}, !.times = {0},
                    !.fails = {"none"},
                    !.raws = {<<" ", "x", " ">>},
                    !.stricts = {FALSE},
                    !.llms = {ApiError} \cup
                             {Text(Json(q)) : q \in SeqsUpTo(StoredTokens, MaxItems)}]
NextQuiz ==
  \/ UploadVideo(QuizProfile)
  \/ GetMcqsByVideoTitle(QuizProfile) \/ DeleteMcq(QuizProfile)
  \/ GetQuizQuestions(QuizProfile)
SpecQuiz == InitUnset /\ [][NextQuiz]_vars

\* The quiz generation on its own: every title and answer of the language model,
\* on no transcript, a blank one and one of one word.
GenerateProfile ==
  [AllInputs EXCEPT !.tokens = {TeacherToken}, !.times = {0},
                    !.raws = {<<>>, <<" ">>, <<" ", "x", " ">>}]
NextGenerate == GenerateAndStoreMcqs(GenerateProfile)
SpecGenerate == InitUnset /\ [][NextGenerate]_vars

\* The chat sessions: every session and query, called by a teacher or a student.
ChatProfile ==
  [AllInputs EXCEPT !.tokens = {TeacherToken, StudentToken}, !.times = {0}]
SpecChat == InitUnset /\ [][ChatEndpoint(ChatProfile)]_vars

\* The vector store in every environment: uploads embed, reviews delete, chats
\* retrieve.  Quiz generation always fails here, so the mcqs table stays empty.
StoreProfile ==
  [AllInputs EXCEPT !.tokens = {TeacherToken}, !.times = {0},
                    !.fails = {"none", "add"},
                    !.raws = {<<" ", "x", " ">>},
                    !.llms = {ApiError},
                    !.queries = {"q1"}, !.sessions = {"s1"}]
NextStore ==
  \/ UploadVideo(StoreProfile) \/ ReviewVideo(StoreProfile) \/ ChatEndpoint(StoreProfile)
SpecStore == Init /\ [][NextStore]_vars

(***************************************************************************)
(* Properties of the role dependency.                                      *)
(***************************************************************************)
\* the roles each route is meant to admit
TeacherRoutes == {"upload_video", "upload_youtube_video", "list_videos", "review_video",
                  "get_mcqs_by_video_title", "delete_mcq"}
SharedRoutes == {"chat_endpoint", "get_quiz_questions"}
RolesOf(route) == IF route \in TeacherRoutes THEN {"teacher"} ELSE {"teacher", "student"}

\* the token of the last request verifies with the server key and is not expired
CallerDecodes ==
  /\ ~caller.token.malformed
  /\ caller.token.key = SECRET_KEY
  /\ caller.token.exp >= caller.utcnow
CallerHasClaims == {"sub", "role"} \subseteq DOMAIN caller.token.claims

GateState ==
  (caller.present /\ last.route \in TeacherRoutes \cup SharedRoutes) =>
    /\ last.ran => (/\ CallerDecodes
                    /\ CallerHasClaims
                    /\ caller.token.claims.role \in RolesOf(last.route))
    /\ (/\ CallerDecodes
        /\ CallerHasClaims
        /\ caller.token.claims.role \notin RolesOf(last.route)) =>
         (~last.ran /\ last.status = 403 /\ last.detail = "Not enough permissions")

RefusedStep == (caller'.present /\ ~last'.ran) => UNCHANGED <<authVars, appVars>>

\* C1: a handler of a teacher-only route runs only for a token whose role is
\* 'teacher', a handler of the chatbot and take-quiz routes only for role 'teacher' or
\* 'student'; a valid token with another role gets 403 'Not enough permissions', and a
\* refused request changes no state.
C1_RoleGate == []GateState /\ [][RefusedStep]_vars

\* C1 witness: a student's valid token was refused on a teacher-only route, after a
\* teacher's upload stored a video
C1_Witness ==
  /\ last.route = "delete_mcq"
  /\ last.status = 403
  /\ caller.token = StudentToken
  /\ videos # {}

\* C2: a protected handler runs only for a token that decodes with the server key and
\* carries both 'sub' and 'role'; a token that does not decode (malformed, other key,
\* expired) or lacks either claim gets 401 'Invalid authentication' and the handler
\* does not run.
C2_CurrentUser ==
  caller.present =>
    /\ last.ran => (CallerDecodes /\ CallerHasClaims)
    /\ ~(CallerDecodes /\ CallerHasClaims) =>
         (~last.ran /\ last.status = 401 /\ last.detail = "Invalid authentication")

\* C2 witness: the teacher's own token, presented after its expiry, got 401
C2_Witness ==
  /\ caller.present
  /\ caller.token = TeacherToken
  /\ caller.utcnow > caller.token.exp
  /\ last.status = 401

(***************************************************************************)
(* Properties of the video and quiz routes.                                *)
(***************************************************************************)
UploadRoutes == {"upload_video", "upload_youtube_video"}
\* the order the claim gives the steps of an upload
ClaimedOrder(route) ==
  <<IF route = "upload_video" THEN "store" ELSE "download",
    "extract_audio", "transcribe", "commit", "embed", "generate">>
\* the step an injected fault belongs to
StepOf(route, fault) ==
  IF fault = "first" THEN ClaimedOrder(route)[1]
  ELSE IF fault \in {"split", "add"} THEN "embed"
  ELSE fault
Position(order, step) == CHOOSE i \in DOMAIN order : order[i] = step

UploadState ==
  (last.route \in UploadRoutes /\ last.ran /\ last.status # 400) =>
    LET order == ClaimedOrder(last.route)
        steps == last.args.steps
        fault == last.args.fault
    IN /\ Len(steps) <= Len(order)
       /\ steps = SubSeq(order, 1, Len(steps))
       /\ last.status = 200 <=> (steps = order /\ last.args.failed = "none")
       /\ last.status # 200 => (last.status = 500 /\ steps[Len(steps)] = last.args.failed)
       /\ fault # "none" =>
            (/\ last.args.failed = StepOf(last.route, fault)
             /\ Len(steps) = Position(order, StepOf(last.route, fault)))

Ran(step) == \E i \in DOMAIN last'.args.steps : last'.args.steps[i] = step
UploadStep ==
  (last'.route \in UploadRoutes /\ last'.ran) =>
    /\ (Ran("commit") /\ last'.args.failed # "commit") <=> videos' # videos
    /\ videos' # videos =>
         \E v \in videos' : /\ v \notin videos
                            /\ videos' = videos \cup {v}
                            /\ v.title = last'.args.title
                            /\ last'.status = 200 => v.transcript = last'.body.transcript
    /\ chroma' # chroma => (Ran("embed") /\ videos' # videos)
    /\ chroma'.docs # chroma.docs => last'.args.failed # "embed"
    /\ mcqs' # mcqs => (last'.status = 200 /\ Ran("generate") /\ videos' # videos)

\* C3: an upload takes its steps in the order store/download, extract audio,
\* transcribe, commit the Video row with its transcript, embed, generate the quiz; it
\* answers 200 only after all six succeeded, and a step that fails is the last one run.
C3_UploadOrder == []UploadState /\ [][UploadStep]_vars

\* C3 witness: an upload whose embedding failed after the Video row was committed
C3_Witness ==
  /\ last.route = "upload_youtube_video"
  /\ last.args.failed = "embed"
  /\ \E v \in videos : v.title = last.args.title
  /\ mcqs # <<>>

\* C4 (as claimed): chat_with_video opens, for every title and every environment, the
\* directory and collection embed_and_store_transcript wrote the title to, so that a
\* chat about a title whose upload stored chunks retrieves from those chunks.
C4_SameStore ==
  LET title == last.args.video_title
      written == DocsIn(chroma, EmbedStore(title).location, EmbedStore(title).collection)
  IN (last.route = "chat_endpoint" /\ last.status = 200 /\ written # {}) =>
       /\ last.args.store = EmbedStore(title)
       /\ last.args.retrieved \in Retrievable(written)

\* C5 (as claimed): review_video with action 'delete' on a title that has a Video row
\* answers with the success message, and afterwards the row and the MCQs of the title
\* are gone.
C5_DeleteRemoves ==
  (/\ last.route = "review_video"
   /\ last.ran
   /\ last.args.video_id # 0
   /\ Lower(last.args.action) = DELETE) =>
    /\ last.status = 200
    /\ ~\E v \in videos : v.id = last.args.video_id
    /\ ~\E i \in DOMAIN mcqs : mcqs[i].video_title = last.args.title

\* the tables that differ from `table` in the answer column only
Answers == {"A", "B", "True", "False"}
AnswerVariants(table) ==
  {[i \in DOMAIN table |-> [table[i] EXCEPT !.answer = f[i]]] :
     f \in [DOMAIN table -> Answers]}

\* C6: the response of get_quiz_questions is the same for every table that differs
\* only in the answer column; it lists question and options of the title's rows, with
\* options ['True', 'False'] for a row without options (None or an empty list), and
\* is 404 without rows.
C6_NoAnswers ==
  (last.route = "get_quiz_questions" /\ last.ran) =>
    LET title == last.args.video_title
        rows == McqsOf(mcqs, title)
    IN /\ \A other \in AnswerVariants(mcqs) :
            LET r == quiz_response(other, title) IN
            /\ r.status = last.status
            /\ r.status = 200 => r.body = last.body
       /\ IF rows = <<>> THEN last.status = 404
          ELSE /\ last.status = 200
               /\ DOMAIN last.body = DOMAIN rows
               /\ \A i \in DOMAIN rows :
                    /\ DOMAIN last.body[i] = {"question", "options"}
                    /\ last.body[i].question = rows[i].question
                    /\ last.body[i].options =
                         IF rows[i].options.none \/ rows[i].options.list = <<>>
                           THEN <<"True", "False">>
                           ELSE rows[i].options.list

\* C6 witness: a quiz of two rows, one with options and one without
C6_Witness ==
  /\ last.route = "get_quiz_questions"
  /\ last.status = 200
  /\ Len(last.body) = 2
  /\ \E i, j \in DOMAIN last.body :
       last.body[i].options = <<"True", "False">> /\ last.body[j].options = <<"A", "B">>

(***************************************************************************)
(* Properties of the chat sessions.                                        *)
(***************************************************************************)
\* C10: a session's history is the exchanges of its successful calls, in call order:
\* a successful call was passed the exchanges before it and then appended its own
\* {user, bot}; a call in which chat_with_video raised recorded nothing.
C10_History ==
  /\ \A s \in DOMAIN chat_sessions : chat_sessions[s] = asked[s]
  /\ \A s \in Sessions \ DOMAIN chat_sessions : asked[s] = <<>>
  /\ (last.route = "chat_endpoint" /\ last.ran) =>
       LET log == asked[last.args.session_id]
           passed == last.args.passed
       IN /\ last.args.prompt.formatted_history = format_chat_history(passed)
          /\ IF last.status = 200
               THEN /\ log # <<>>
                    /\ passed = SubSeq(log, 1, Len(log) - 1)
                    /\ log[Len(log)] = [user |-> last.args.user_query,
                                        bot |-> last.body.response]
               ELSE passed = log

\* C10 witness: the third successful call of a session, passed two exchanges that
\* differ, in their order
C10_Witness ==
  /\ last.route = "chat_endpoint"
  /\ last.status = 200
  /\ Len(last.args.passed) = 2
  /\ last.args.passed[1] # last.args.passed[2]
  /\ last.args.prompt.formatted_history[2].user = last.args.passed[2].user

(***************************************************************************)
(* Properties of the authentication routes.                                *)
(***************************************************************************)

\* the step of C7: what one signup call does to the tables
SignupStep ==
  last'.route = "signup" =>
    LET u == last'.args.username IN
    IF HasUser(u) \/ HasRequest(u)
      THEN /\ last'.status = 400
           /\ last'.detail = "Username already exists"
           /\ users' = users
           /\ signup_requests' = signup_requests
      ELSE /\ last'.status = 200
           /\ users' = users
           /\ \E r \in signup_requests' :
                /\ r \notin signup_requests
                /\ signup_requests' = signup_requests \cup {r}
                /\ r.username = u
                /\ r.status = "pending"

\* a username with a signup request has no User row, and a login with it is refused
PendingCannotLogin ==
  /\ \A r \in signup_requests : ~HasUser(r.username)
  /\ (last.route = "login" /\ HasRequest(last.args.username)) => last.status = 401

\* C7: signup with a username already in users or in signup_requests returns 400
\* 'Username already exists' and adds no row; otherwise it adds exactly one request,
\* with status 'pending', and no User row, so that username cannot log in while its
\* request is pending.
C7_Signup == [][SignupStep]_vars /\ []PendingCannotLogin

\* C7 witness: a signup refused because the username belongs to an approved user
C7_Witness ==
  /\ last.route = "signup"
  /\ last.status = 400
  /\ HasUser(last.args.username)
  /\ Cardinality(signup_requests) >= 1

\* C8: login returns a token exactly when a User row with the username exists and
\* the password verifies against its hash; the token's sub and role are that row's
\* username and role; every other login gets 401 'Invalid credentials'; a successful
\* login for u comes after an APPROVE of a signup request for u.
C8_Login ==
  last.route = "login" =>
    LET u == last.args.username
        p == last.args.password
    IN IF \E row \in users : row.username = u /\ pwd_verify(p, row.password_hash)
         THEN /\ last.status = 200
              /\ \A row \in users : row.username = u =>
                   /\ Get(last.body.access_token.claims, "sub") = row.username
                   /\ Get(last.body.access_token.claims, "role") = row.role
              /\ last.body.access_token.key = SECRET_KEY
              /\ u \in approvedNames
         ELSE /\ last.status = 401
              /\ last.detail = "Invalid credentials"

\* C8 witness: a login that succeeded, and another user's request is still pending
C8_Witness ==
  /\ last.route = "login"
  /\ last.status = 200
  /\ signup_requests # {}

\* the step of C9: what one APPROVE of an existing request does
ApproveStep ==
  (/\ last'.route = "manage_user"
   /\ Upper(last'.args.action) = APPROVE
   /\ \E r \in signup_requests : r.id = last'.args.request_id) =>
    LET r == CHOOSE q \in signup_requests : q.id = last'.args.request_id IN
    /\ last'.status = 200
    /\ signup_requests' = signup_requests \ {r}
    /\ \E u \in users' :
         /\ u \notin users
         /\ users' = users \cup {u}
         /\ u.username = r.username
         /\ u.name = r.name
         /\ u.password_hash = r.password_hash
         /\ u.role = r.role

\* an approved request is gone, its id gives 404, and no id is approved twice
ApprovedOnce ==
  /\ \A id \in DOMAIN approvals :
       /\ approvals[id] <= 1
       /\ approvals[id] = 1 => ~\E r \in signup_requests : r.id = id
  /\ (/\ last.route = "manage_user"
      /\ ~\E r \in signup_requests : r.id = last.args.request_id
      /\ last.status # 200) => last.status = 404

\* C9: APPROVE (in any letter case) on an existing signup request creates, in one
\* step, a User with the request's username, name, password_hash and role and removes
\* the request; afterwards the request id gives 404, so no request is approved twice.
C9_Approve == [][ApproveStep]_vars /\ []ApprovedOnce

\* C9 witness: a second manage_user call on an approved request id got 404
C9_Witness ==
  /\ last.route = "manage_user"
  /\ last.status = 404
  /\ approvals[last.args.request_id] = 1

(***************************************************************************)
(* Properties of the quiz generation.                                      *)
(***************************************************************************)
\* an item the table refuses: no object, or no question or answer (NOT NULL)
Refused(item) == ~item.dict \/ item.question = None \/ item.answer = None
NoTranscript(transcript) == transcript = <<>> \/ Strip(transcript) = <<>>
GenerateRan == last'.route = "generate_and_store_mcqs"
\* the call raised and the table is as it was
NothingStored == last'.status = 500 /\ mcqs' = mcqs /\ nextMcqId' = nextMcqId
\* the call returned and the table has one new row per item, under the title
AllStored(items, video_title) ==
  /\ last'.status = 200
  /\ Len(mcqs') = Len(mcqs) + Len(items)
  /\ SubSeq(mcqs', 1, Len(mcqs)) = mcqs
  /\ \A i \in DOMAIN items :
       LET row == mcqs'[Len(mcqs) + i] IN
       /\ row.video_title = video_title
       /\ row.question = items[i].question
       /\ row.answer = items[i].answer
       /\ \A j \in DOMAIN mcqs' : mcqs'[j].id = row.id => j = Len(mcqs) + i

\* C11 as stated: a call of generate_and_store_mcqs with an empty transcript, a
\* failed model call, a response that is not valid JSON or not a JSON list, or an
\* item the table refuses raises and stores nothing; every other call stores one
\* row per item under the given title.
C11_AllOrNothing_AsStated ==
  [][GenerateRan =>
       LET a == last'.args
           response == json_loads(a.llm.text)
       IN IF \/ NoTranscript(a.transcript)
             \/ a.llm.kind = "api_error"
             \/ ~response.ok \/ ~response.list
             \/ \E i \in DOMAIN response.items : Refused(response.items[i])
            THEN NothingStored
            ELSE AllStored(response.items, a.video_title)]_vars

\* C11, amended: the same with the response judged after extract_json_from_text:
\* the call raises and stores nothing when the text left after stripping white
\* space and markdown fences and cutting from the first "[" to the last "]" is
\* not a JSON list; otherwise it stores one row per item of that list.
C11_AllOrNothing ==
  [][GenerateRan =>
       LET a == last'.args
           inner == json_loads(extract_json_from_text(a.llm.text))
       IN IF \/ NoTranscript(a.transcript)
             \/ a.llm.kind = "api_error"
             \/ ~inner.ok \/ ~inner.list
             \/ \E i \in DOMAIN inner.items : Refused(inner.items[i])
            THEN NothingStored
            ELSE AllStored(inner.items, a.video_title)]_vars

\* a call whose second item was refused after its first was added, and a table
\* that holds nothing of it
C11_Witness ==
  /\ last.route = "generate_and_store_mcqs"
  /\ last.status = 500
  /\ ~NoTranscript(last.args.transcript)
  /\ last.args.llm.text = Json(<<"mcq", "noq">>)
  /\ mcqs = <<>>

(***************************************************************************)
(* Properties of the question types.                                       *)
(***************************************************************************)
\* the item the language model gave for a stored question: the items of Items
\* that can be stored differ in their question
ItemGiven(question) == CHOOSE item \in Items : item.dict /\ item.question = question

\* C12: get_mcqs_by_video_title answers 404 for a title without stored question,
\* and otherwise reports every stored question of the title with the type the
\* language model gave it: "mcq" with the item's options, "true_false" with options
\* None.
C12_TypeRoundTrip ==
  (last.route = "get_mcqs_by_video_title" /\ last.ran) =>
    LET rows == McqsOf(mcqs, last.args.video_title) IN
    IF rows = <<>> THEN last.status = 404
    ELSE /\ last.status = 200
         /\ DOMAIN last.body.questions = DOMAIN rows
         /\ \A i \in DOMAIN rows :
              LET given == ItemGiven(rows[i].question)
                  reported == last.body.questions[i]
              IN /\ reported.question = given.question
                 /\ reported.type = given.type
                 /\ given.type = "mcq" => reported.options = given.options
                 /\ given.type = "true_false" => reported.options = NoList

(***************************************************************************)
(* Properties of the vector store.                                         *)
(***************************************************************************)
\* no step removes a collection or a document, or changes a document
VectorStoreKept ==
  /\ chroma.collections \subseteq chroma'.collections
  /\ chroma.docs \subseteq chroma'.docs
\* the chunks an upload of the title embedded, in the collection it wrote them to
ChunksOf(video_title) ==
  {d \in DocsIn(chroma, EmbedStore(video_title).location,
                EmbedStore(video_title).collection) : d.id[1] = video_title}
\* a chat about a title that answered has retrieved every chunk embedded for the
\* title, when the collection holds no more documents than a search returns
ChunksRetrieved ==
  (last.route = "chat_endpoint" /\ last.status = 200) =>
    LET title == last.args.video_title
        held == DocsIn(chroma, EmbedStore(title).location, EmbedStore(title).collection)
    IN Cardinality(held) <= RetrieverK => ChunksOf(title) \subseteq last.args.retrieved

\* C13: no step of the program removes or changes a collection or a document of
\* the vector store, whatever happens to the Video rows, and every chat about a
\* title still retrieves the chunks that were embedded for it at upload.
C13_NeverCleaned == [][VectorStoreKept]_vars /\ []ChunksRetrieved

====
